---- MODULE Spec2Model ----
(***************************************************************************)
(* Model of src/libsignal/ecc.rs: the Curve facade (decode_point,          *)
(* decode_private_point, calculate_agreement, generate_key_pair) and the   *)
(* PublicKey / PrivateKey containers.                                      *)
(*                                                                         *)
(* Byte buffers are sequences of numbers in 0..255.  Rust indexes from 0,  *)
(* TLA+ sequences from 1: At(bytes, i) is the Rust expression bytes[i].    *)
(* A call's outcome is Ok(v), Err(msg) (an InvalidKeyError) or Panic(msg)  *)
(* (the call unwinds instead of returning).                                *)
(***************************************************************************)
EXTENDS Integers, Sequences, FiniteSets, TLC

VARIABLES
    overflow_checks,  \* build profile: are usize overflows checked (debug) or wrapping (release)
    bytes,            \* the untrusted buffer handed to the decoders in this run
    offset,           \* the offset handed to decode_point in this run
    pubKey,           \* the PublicKey value the caller currently holds, or NoKey
    privKey,          \* the PrivateKey value the caller currently holds, or NoKey
    last,             \* the most recent call: its name, operands and outcome
    first             \* history: the first calculate_agreement call of the run, or NoCall

vars == <<overflow_checks, bytes, offset, pubKey, privKey, last, first>>

----------------------------------------------------------------------------
(* Program constants *)

DJB_TYPE == 5

KeyLen == 32

PointLen == 33

ByteMask == 255

OtherType == 8

(* Bounds of the model *)

UsizeBits == 16

MaxPad == 2

MaxShort == 2

MaxOver == 2

MaxStep == 1

MaxOffset == 3

MaxSeed == 2

UsizeModulus == 2 ^ UsizeBits

UsizeMax == UsizeModulus - 1

----------------------------------------------------------------------------
(* Values *)

Ok(v) == [kind |-> "Ok", value |-> v]

InvalidKeyError(msg) == [kind |-> "Err", msg |-> msg]

Panic(msg) == [kind |-> "Panic", msg |-> msg]

NoKey == [impl |-> "None"]

NoCall == [op |-> "none", result |-> [kind |-> "None"]]

PublicKey(arr) == [impl |-> "PublicKey", bytes |-> arr]

PrivateKey(arr) == [impl |-> "PrivateKey", bytes |-> arr]

\* Some other implementor of ECPublicKey / ECPrivateKey, which reports the
\* type tag it was built with.
ForeignKey(t, arr) == [impl |-> "Foreign", type |-> t, bytes |-> arr]

At(b, i) == b[i + 1]

Repeat(v, n) == [i \in 1..n |-> v]

Ramp(base, step, n) == [i \in 1..n |-> (base + (i - 1) * step) % (ByteMask + 1)]

\* format!("{}{}", prefix, n)
Format(prefix, n) == prefix \o ToString(n)

----------------------------------------------------------------------------
(* helpers::slices, as section 6 of the specification describes it *)

slices_copy(src, src_offset, dst, dst_offset, n) ==
    IF src_offset + n > Len(src) \/ dst_offset + n > Len(dst)
    THEN InvalidKeyError("out of bounds")
    ELSE Ok([i \in 1..Len(dst) |->
                IF dst_offset < i /\ i <= dst_offset + n
                THEN src[src_offset + (i - dst_offset)]
                ELSE dst[i]])

slices_to_array32(b) ==
    IF Len(b) = KeyLen
    THEN Ok([i \in 1..KeyLen |-> b[i]])
    ELSE InvalidKeyError("wrong length")

----------------------------------------------------------------------------
(* Curve25519, the external curve primitive (section 6): pure functions of *)
(* 32-byte values.  The arithmetic below stands for the scalar             *)
(* multiplication; only its being a function of both operands is used.     *)

Curve25519_calculate_agreement(public, private) ==
    [i \in 1..KeyLen |-> (3 * public[i] + 5 * private[i] + i) % (ByteMask + 1)]

PrivateMaterial(seed) == Ramp(seed, 3, KeyLen)

PublicMaterial(seed) == Ramp(100 + seed, 7, KeyLen)

----------------------------------------------------------------------------
(* Key containers *)

PublicKey_new(arr) == PublicKey(arr)

PublicKey_from(arr) == PublicKey(arr)

PublicKey_serialize(self) == self.bytes

PublicKey_get_type(self) == DJB_TYPE

PublicKey_get_public_key(self) == self.bytes

PrivateKey_new(arr) ==
    LET buf == Repeat(0, KeyLen)
    IN  PrivateKey([i \in 1..Len(buf) |-> arr[i]])

\* Faulty variant: the type tag is prepended.
PrivateKey_serialize_tagged(self) == <<DJB_TYPE>> \o self.bytes

PrivateKey_serialize(self) == self.bytes

\* Faulty variant: the tag is left at zero.
PrivateKey_get_type_unset(self) == 0

PrivateKey_get_type(self) == DJB_TYPE

PrivateKey_get_private_key(self) == self.bytes

KeyPair_new(public, private) == [public_key |-> public, private_key |-> private]

\* Trait dispatch: the concrete containers, or another implementor.
get_type(key) ==
    IF key.impl = "PublicKey" THEN PublicKey_get_type(key)
    ELSE IF key.impl = "PrivateKey" THEN PrivateKey_get_type(key)
    ELSE key.type

get_public_key(key) ==
    IF key.impl = "PublicKey" THEN PublicKey_get_public_key(key) ELSE key.bytes

get_private_key(key) ==
    IF key.impl = "PrivateKey" THEN PrivateKey_get_private_key(key) ELSE key.bytes

Curve25519_generate_key_pair(seed) ==
    KeyPair_new(PublicKey(PublicMaterial(seed)), PrivateKey(PrivateMaterial(seed)))

----------------------------------------------------------------------------
(* Curve *)

\* `a - b` on usize: checked builds panic on overflow, unchecked builds wrap.
usize_sub(a, b) ==
    IF a >= b THEN [overflow |-> FALSE, value |-> a - b]
    ELSE IF overflow_checks THEN [overflow |-> TRUE, value |-> 0]
    ELSE [overflow |-> FALSE, value |-> a - b + UsizeModulus]

\* A call's outcome together with what it evaluated on the way: the number
\* of usize subtractions and the buffer indices it read.
Outcome(result, subs, reads) == [result |-> result, subs |-> subs, reads |-> reads]

\* Faulty variant: the subtraction is evaluated before the emptiness test.
no_type_identifier_eager(b, off) ==
    LET d == usize_sub(Len(b), off)
    IN  [overflow |-> d.overflow,
         holds    |-> ~d.overflow /\ (d.value < 1 \/ Len(b) = 0),
         subs     |-> 1]

\* The condition of the first `if`: `||` evaluates its right operand only
\* when the left one is false.
no_type_identifier(b, off) ==
    IF Len(b) = 0
    THEN [overflow |-> FALSE, holds |-> TRUE, subs |-> 0]
    ELSE LET d == usize_sub(Len(b), off)
         IN  [overflow |-> d.overflow,
              holds    |-> ~d.overflow /\ d.value < 1,
              subs     |-> 1]

bad_key_type(type_) == InvalidKeyError(Format("Bad key type: ", type_))

\* Faulty variant: reports the bytes remaining after the offset.
bad_key_length_remaining(b, off) ==
    InvalidKeyError(Format("Bad key length: ", Len(b) - off))

bad_key_length(b, off) == InvalidKeyError(Format("Bad key length: ", Len(b)))

\* Faulty variant: the copy starts at the tag byte.
key_start_at_tag(off) == off

key_start(off) == off + 1

\* The DJB_TYPE branch: length check, copy, coercion to [u8; 32].
decode_djb(b, off, type_) ==
    LET d == usize_sub(Len(b), off)
    IN  IF d.overflow
        THEN Outcome(Panic("attempt to subtract with overflow"), 1, {})
        ELSE IF d.value < PointLen
        THEN Outcome(bad_key_length(b, off), 1, {})
        ELSE LET key_bytes == Repeat(0, KeyLen)
                 result    == slices_copy(b, key_start(off), key_bytes, 0, Len(key_bytes))
                 reads     == key_start(off) .. (key_start(off) + Len(key_bytes) - 1)
             IN  IF result.kind = "Ok"
                 THEN LET arr == slices_to_array32(result.value)
                      IN  IF arr.kind = "Ok"
                          THEN Outcome(Ok(PublicKey(arr.value)), 1, reads)
                          ELSE Outcome(bad_key_type(type_), 1, reads)
                 ELSE Outcome(bad_key_type(type_), 1, {})

\* Faulty variant: the 33-byte check precedes the tag comparison.
decode_tagged_length_first(b, off) ==
    LET type_ == At(b, off) % (ByteMask + 1)
    IN  IF Len(b) - off < PointLen
        THEN Outcome(bad_key_length(b, off), 1, {off})
        ELSE IF type_ = DJB_TYPE
        THEN decode_djb(b, off, type_)
        ELSE Outcome(bad_key_type(type_), 1, {off})

\* The `else` branch of decode_point, entered with a byte at `off`.
decode_tagged(b, off) ==
    LET type_ == At(b, off) % (ByteMask + 1)
    IN  IF type_ = DJB_TYPE
        THEN LET r == decode_djb(b, off, type_)
             IN  Outcome(r.result, r.subs, {off} \cup r.reads)
        ELSE Outcome(bad_key_type(type_), 0, {off})

decode_point(b, off) ==
    LET g == no_type_identifier(b, off)
    IN  IF g.overflow
        THEN Outcome(Panic("attempt to subtract with overflow"), g.subs, {})
        ELSE IF g.holds
        THEN Outcome(InvalidKeyError("No key type identifier"), g.subs, {})
        ELSE IF off >= Len(b)
        THEN Outcome(Panic("index out of bounds"), g.subs, {})
        ELSE LET r == decode_tagged(b, off)
             IN  Outcome(r.result, g.subs + r.subs, r.reads)

\* Faulty variant: a longer buffer is cut to its first 32 bytes.
decode_private_point_truncating(b) ==
    IF Len(b) >= KeyLen
    THEN Ok(PrivateKey(SubSeq(b, 1, KeyLen)))
    ELSE InvalidKeyError("Error decoding private point")

decode_private_point(b) ==
    LET r == slices_to_array32(b)
    IN  IF r.kind = "Ok"
        THEN Ok(PrivateKey(r.value))
        ELSE InvalidKeyError("Error decoding private point")

\* A call's outcome and the invocations of the curve primitive it made.
Agreement(result, prim) == [result |-> result, prim |-> prim]

type_mismatch == InvalidKeyError("Public and private keys must be of the same type!")

invoke_primitive(public_key, private_key) ==
    Agreement(Ok(Curve25519_calculate_agreement(get_public_key(public_key),
                                                get_private_key(private_key))),
              << <<get_public_key(public_key), get_private_key(private_key)>> >>)

\* Faulty variant: only `a != b` is tested.
calculate_agreement_same_type_only(public_key, private_key) ==
    LET a == get_type(public_key)
        b == get_type(private_key)
    IN  IF a # b
        THEN Agreement(type_mismatch, <<>>)
        ELSE invoke_primitive(public_key, private_key)

\* Faulty variant: the previous successful agreement is returned again.
calculate_agreement_cached(public_key, private_key) ==
    IF last.op = "calculate_agreement" /\ last.result.kind = "Ok"
    THEN Agreement(last.result, <<>>)
    ELSE IF get_type(public_key) # get_type(private_key) \/ get_type(public_key) # DJB_TYPE
    THEN Agreement(type_mismatch, <<>>)
    ELSE invoke_primitive(public_key, private_key)

calculate_agreement(public_key, private_key) ==
    LET a == get_type(public_key)
        b == get_type(private_key)
    IN  IF a # b \/ a # DJB_TYPE
        THEN Agreement(type_mismatch, <<>>)
        ELSE invoke_primitive(public_key, private_key)

----------------------------------------------------------------------------
(* Inputs *)

\* The buffers of the tests module.
b1 == <<>>

b2 == Repeat(0, 10)

b3 == <<0, OtherType, DJB_TYPE>> \o Repeat(0, 64)

too_short == Repeat(0, 10)

too_long == Repeat(OtherType, 64)

good_size == Repeat(DJB_TYPE, KeyLen)

TestInputs ==
    { <<b1, 2>>, <<b2, 10>>, <<b3, 2>>,
      <<too_short, 0>>, <<too_long, 0>>, <<good_size, 0>> }

\* A family of buffers around the codec's boundaries: a pad of up to MaxPad
\* bytes that are not the tag, then a run that starts with a tag byte and
\* is empty, short, or within MaxOver of a whole key.
PadByte(i) == IF i % 2 = 1 THEN 0 ELSE OtherType

Pad(p) == [i \in 1..p |-> PadByte(i)]

RunLens == (0..MaxShort) \cup ((KeyLen - 1)..(KeyLen + MaxOver))

Buffers ==
    { Pad(p) \o Ramp(tag, step, n) :
        p \in 0..MaxPad, tag \in {DJB_TYPE, OtherType}, step \in 0..MaxStep, n \in RunLens }

\* Offsets inside the buffer, at its end, past its end, and the largest usize.
Offsets(b) == (0..MaxOffset) \cup {Len(b), Len(b) + 1, UsizeMax}

\* The tags of implementors other than PublicKey and PrivateKey.
ForeignTypes == {OtherType}

----------------------------------------------------------------------------
(* Specification *)

Start ==
    /\ overflow_checks \in BOOLEAN
    /\ pubKey = NoKey
    /\ privKey = NoKey
    /\ last = NoCall
    /\ first = NoCall

\* A panic unwinds the caller: nothing more is called in the run.
Aborted == last.result.kind = "Panic"

GenerateKeyPair ==
    /\ ~Aborted
    /\ \E seed \in 1..MaxSeed :
          LET pair == Curve25519_generate_key_pair(seed)
          IN  /\ pubKey' = pair.public_key
              /\ privKey' = pair.private_key
              /\ last' = [op |-> "generate_key_pair", result |-> Ok(pair)]
    /\ UNCHANGED <<overflow_checks, bytes, offset, first>>

DecodePoint ==
    /\ ~Aborted
    /\ LET r == decode_point(bytes, offset)
       IN  /\ last' = [op |-> "decode_point", result |-> r.result,
                       subs |-> r.subs, reads |-> r.reads]
           /\ pubKey' = IF r.result.kind = "Ok" THEN r.result.value ELSE pubKey
    /\ UNCHANGED <<overflow_checks, bytes, offset, privKey, first>>

DecodePrivatePoint ==
    /\ ~Aborted
    /\ LET r == decode_private_point(bytes)
       IN  /\ last' = [op |-> "decode_private_point", result |-> r]
           /\ privKey' = IF r.kind = "Ok" THEN r.value ELSE privKey
    /\ UNCHANGED <<overflow_checks, bytes, offset, pubKey, first>>

PublicKeyNew ==
    /\ ~Aborted
    /\ \E seed \in 1..MaxSeed :
          /\ pubKey' = PublicKey_new(PublicMaterial(seed))
          /\ last' = [op |-> "PublicKey_new", result |-> Ok(pubKey')]
    /\ UNCHANGED <<overflow_checks, bytes, offset, privKey, first>>

PublicKeyFrom ==
    /\ ~Aborted
    /\ \E seed \in 1..MaxSeed :
          /\ pubKey' = PublicKey_from(PublicMaterial(seed))
          /\ last' = [op |-> "PublicKey_from", result |-> Ok(pubKey')]
    /\ UNCHANGED <<overflow_checks, bytes, offset, privKey, first>>

PrivateKeyNew ==
    /\ ~Aborted
    /\ \E seed \in 1..MaxSeed :
          /\ privKey' = PrivateKey_new(PrivateMaterial(seed))
          /\ last' = [op |-> "PrivateKey_new", result |-> Ok(privKey')]
    /\ UNCHANGED <<overflow_checks, bytes, offset, pubKey, first>>

PublicSerialize ==
    /\ ~Aborted
    /\ pubKey # NoKey
    /\ last' = [op |-> "PublicKey_serialize", result |-> Ok(PublicKey_serialize(pubKey))]
    /\ UNCHANGED <<overflow_checks, bytes, offset, pubKey, privKey, first>>

PrivateSerialize ==
    /\ ~Aborted
    /\ privKey # NoKey
    /\ last' = [op |-> "PrivateKey_serialize", result |-> Ok(PrivateKey_serialize(privKey))]
    /\ UNCHANGED <<overflow_checks, bytes, offset, pubKey, privKey, first>>

PrivateGetPrivateKey ==
    /\ ~Aborted
    /\ privKey # NoKey
    /\ last' = [op |-> "PrivateKey_get_private_key",
                result |-> Ok(PrivateKey_get_private_key(privKey))]
    /\ UNCHANGED <<overflow_checks, bytes, offset, pubKey, privKey, first>>

\* The operands a caller can pass: the keys it holds, or another implementor
\* of the capability traits carrying the held key's bytes under some tag.
PublicOperands == {pubKey} \cup { ForeignKey(t, pubKey.bytes) : t \in ForeignTypes }

PrivateOperands == {privKey} \cup { ForeignKey(t, privKey.bytes) : t \in ForeignTypes }

CalculateAgreement ==
    /\ ~Aborted
    /\ pubKey # NoKey
    /\ privKey # NoKey
    /\ \E public_key \in PublicOperands, private_key \in PrivateOperands :
          LET r == calculate_agreement(public_key, private_key)
          IN  /\ last' = [op |-> "calculate_agreement",
                          public_key |-> public_key, private_key |-> private_key,
                          result |-> r.result, prim |-> r.prim,
                          repeat |-> first # NoCall]
              /\ first' = IF first = NoCall
                          THEN [op |-> "calculate_agreement",
                                public_key |-> public_key, private_key |-> private_key,
                                result |-> r.result]
                          ELSE first
    /\ UNCHANGED <<overflow_checks, bytes, offset, pubKey, privKey>>

\* The key life cycle, on the inputs of the tests module.
Init ==
    /\ Start
    /\ \E input \in TestInputs : bytes = input[1] /\ offset = input[2]

Next ==
    \/ GenerateKeyPair
    \/ DecodePoint
    \/ DecodePrivatePoint
    \/ PublicKeyNew
    \/ PublicKeyFrom
    \/ PrivateKeyNew
    \/ PublicSerialize
    \/ PrivateSerialize
    \/ PrivateGetPrivateKey
    \/ CalculateAgreement

Spec == Init /\ [][Next]_vars

\* The wire codec alone, on the buffer family.
InitCodec ==
    /\ Start
    /\ bytes \in Buffers \cup { input[1] : input \in TestInputs }
    /\ offset \in Offsets(bytes) \cup { input[2] : input \in TestInputs }

NextCodec ==
    \/ DecodePoint
    \/ DecodePrivatePoint
    \/ PublicSerialize
    \/ PrivateSerialize
    \/ PrivateGetPrivateKey

SpecCodec == InitCodec /\ [][NextCodec]_vars

----------------------------------------------------------------------------
(* Claims *)

\* C1: whenever offset >= len(bytes), decode_point returns
\* InvalidKeyError("No key type identifier"); it never aborts and never
\* returns a key.
C1_PastEndIsNoTypeIdentifier ==
    (last.op = "decode_point" /\ offset >= Len(bytes))
        => last.result = InvalidKeyError("No key type identifier")

\* C2: when bytes[offset] is the tag 0x05 and at least 33 bytes remain from
\* offset, decode_point succeeds and the key is exactly
\* bytes[offset+1 .. offset+33).
C2_DecodePointCopiesKey ==
    (/\ last.op = "decode_point"
     /\ offset < Len(bytes)
     /\ At(bytes, offset) = 5
     /\ Len(bytes) - offset >= 33)
        => /\ last.result.kind = "Ok"
           /\ last.result.value.impl = "PublicKey"
           /\ Len(last.result.value.bytes) = 32
           /\ \A i \in 0..31 : At(last.result.value.bytes, i) = At(bytes, offset + 1 + i)
           /\ pubKey = last.result.value

C2_Witness ==
    /\ last.op = "decode_point"
    /\ last.result.kind = "Ok"
    /\ offset > 0
    /\ Len(bytes) - offset > 33
    /\ At(bytes, offset + 1) # At(bytes, offset)
    /\ At(bytes, offset + 2) # At(bytes, offset + 1)

\* C3: when bytes[offset] exists and is not the tag 0x05, decode_point fails
\* with "Bad key type: <tag>" carrying bytes[offset], however few bytes
\* remain after offset.
C3_WrongTagIsBadKeyType ==
    (/\ last.op = "decode_point"
     /\ offset < Len(bytes)
     /\ At(bytes, offset) # 5)
        => last.result =
              InvalidKeyError("Bad key type: " \o ToString(At(bytes, offset)))

C3_Witness ==
    /\ last.op = "decode_point"
    /\ offset < Len(bytes)
    /\ At(bytes, offset) = 8
    /\ Len(bytes) - offset < 33
    /\ last.result = InvalidKeyError("Bad key type: 8")

\* C4: when bytes[offset] is the tag 0x05 and between 1 and 32 bytes remain
\* from offset, decode_point fails with "Bad key length: <n>", n being the
\* total length of the buffer, and no key is returned.
C4_ShortKeyIsBadKeyLength ==
    (/\ last.op = "decode_point"
     /\ offset < Len(bytes)
     /\ At(bytes, offset) = 5
     /\ Len(bytes) - offset < 33)
        => /\ last.result =
                 InvalidKeyError("Bad key length: " \o ToString(Len(bytes)))
           /\ pubKey = NoKey

C4_Witness ==
    /\ last.op = "decode_point"
    /\ offset = 2
    /\ Len(bytes) = 33
    /\ At(bytes, offset) = 5
    /\ last.result = InvalidKeyError("Bad key length: 33")

\* C5: decode_private_point succeeds exactly when the buffer has 32 bytes,
\* the key then being the whole buffer whatever its first byte is; any other
\* length gives InvalidKeyError("Error decoding private point").
C5_PrivatePointIffLength32 ==
    (last.op = "decode_private_point")
        => /\ (last.result.kind = "Ok") <=> (Len(bytes) = 32)
           /\ Len(bytes) # 32
                 => last.result = InvalidKeyError("Error decoding private point")
           /\ Len(bytes) = 32
                 => /\ last.result.value = [impl |-> "PrivateKey", bytes |-> bytes]
                    /\ privKey = last.result.value

C5_Witness ==
    /\ last.op = "decode_private_point"
    /\ Len(bytes) > 32
    /\ At(bytes, 0) = 5
    /\ last.result = InvalidKeyError("Error decoding private point")

\* C7: every 32-byte buffer decodes as a private key, and serialize() and
\* get_private_key() on that key return the buffer byte for byte.  (In
\* SpecCodec the only private key is the one decode_private_point made of
\* bytes.)
C7_PrivateRoundTrip ==
    /\ (last.op = "decode_private_point" /\ Len(bytes) = 32)
          => last.result.kind = "Ok"
    /\ (last.op \in {"PrivateKey_serialize", "PrivateKey_get_private_key"})
          => /\ Len(bytes) = 32
             /\ last.result = Ok(bytes)

C7_Witness ==
    /\ last.op = "PrivateKey_serialize"
    /\ last.result = Ok(bytes)
    /\ At(bytes, 0) = 8
    /\ At(bytes, 1) = 9

\* C10: on an empty buffer decode_point returns
\* InvalidKeyError("No key type identifier") for every offset, without
\* evaluating len - offset and without reading a byte.
C10_EmptyBufferIsNoTypeIdentifier ==
    (last.op = "decode_point" /\ Len(bytes) = 0)
        => /\ last.result = InvalidKeyError("No key type identifier")
           /\ last.subs = 0
           /\ last.reads = {}

C10_Witness ==
    /\ last.op = "decode_point"
    /\ Len(bytes) = 0
    /\ offset > 1
    /\ overflow_checks
    /\ last.result.kind = "Err"

\* The type tag an operand of calculate_agreement reports.
OperandType(key) == IF key.impl = "Foreign" THEN key.type ELSE 5

\* C6: calculate_agreement fails with the type-mismatch error exactly when
\* the operands' tags differ or either is not 0x05, and then the curve
\* primitive is not invoked; otherwise it returns Ok of the primitive's
\* result for (public bytes, private bytes), invoked once.
C6_AgreementTypeCheck ==
    (last.op = "calculate_agreement") =>
        LET a == OperandType(last.public_key)
            b == OperandType(last.private_key)
            bad == a # b \/ a # 5 \/ b # 5
        IN  /\ bad =>
                 /\ last.result = InvalidKeyError(
                        "Public and private keys must be of the same type!")
                 /\ last.prim = <<>>
            /\ ~bad =>
                 /\ last.result = Ok(Curve25519_calculate_agreement(
                        last.public_key.bytes, last.private_key.bytes))
                 /\ last.prim = << <<last.public_key.bytes, last.private_key.bytes>> >>

C6_Witness ==
    /\ last.op = "calculate_agreement"
    /\ OperandType(last.public_key) = 8
    /\ OperandType(last.private_key) = 8
    /\ last.result.kind = "Err"

C9_KeysAreDjbType ==
    /\ pubKey # NoKey => get_type(pubKey) = 5
    /\ privKey # NoKey => get_type(privKey) = 5
    /\ (/\ last.op = "calculate_agreement"
        /\ last.public_key.impl = "PublicKey"
        /\ last.private_key.impl = "PrivateKey")
          => last.result.kind = "Ok"

C9_Witness ==
    /\ last.op = "calculate_agreement"
    /\ last.public_key = Curve25519_generate_key_pair(1).public_key
    /\ last.private_key = Curve25519_generate_key_pair(2).private_key
    /\ last.result.kind = "Ok"

====
